---- MODULE Spec2Model ----
(***************************************************************************)
(* mixmatch_ot1d (src/src/mixmatch.py): one call of the MixMatch batch     *)
(* construction, statement by statement.  Arrays live in a heap and are    *)
(* named by references, so that in-place updates and aliasing are visible. *)
(* An array is a sequence of rows, a row a sequence of integers (integers  *)
(* stand for the floats of the source).                                    *)
(***************************************************************************)
EXTENDS Integers, Sequences, FiniteSets, TLC

VARIABLES inp, heap, rng, pc, err, errAt, Xhat, Uaugs, Uhat, preds, Q, W,
          Wlabels, l, perm, predLog, mixLog, outs, ret

vars == <<inp, heap, rng, pc, err, errAt, Xhat, Uaugs, Uhat, preds, Q, W,
          Wlabels, l, perm, predLog, mixLog, outs, ret>>

\* ------------------------------------------------------------------ bounds
MaxRows == 2
MaxAug == 2
FeatDim == 1

\* default of the naug parameter
DefaultNaug == 5

\* a local name that is not bound to an array yet
Unbound == 0

\* the caller's arrays are the first three of the heap
XRef == 1
YRef == 2
URef == 3

\* ------------------------------------------------------------- pure helpers
Range(s) == {s[i] : i \in 1..Len(s)}

\* len(a) of an array
Rows(a) == Len(a)

\* the permutations of 1..n
Perms(n) == {p \in [1..n -> 1..n] : \A i, j \in 1..n : i # j => p[i] # p[j]}

\* a[indices]: fancy indexing by a sequence of row indices
Take(a, p) == [i \in 1..Len(p) |-> a[p[i]]]

\* how often v occurs in s
Count(s, v) == Cardinality({i \in 1..Len(s) : s[i] = v})

\* s and t hold the same values with the same multiplicities
SameMultiset(s, t) ==
    /\ Len(s) = Len(t)
    /\ \A i \in 1..Len(s) : Count(s, s[i]) = Count(t, s[i])

Sorted(r) == \A i \in 1..(Len(r) - 1) : r[i] <= r[i + 1]

\* ------------------------------------------------------- the random source
\* np.random's global generator: a state, and the successor after one draw
RngNext(s) == (5 * s + 3) % 8

RECURSIVE RngAfter(_, _)
RngAfter(s, k) == IF k <= 0 THEN s ELSE RngAfter(RngNext(s), k - 1)

\* one standard normal sample, read off the generator state
Sample(s) == (s % 3) - 1

\* np.random.normal(size=(n, m), scale=stddev): entry (i, j) is the
\* ((i-1)*m + j)-th draw, scaled by stddev
NormalArray(s, n, m, stddev) ==
    [i \in 1..n |-> [j \in 1..m |-> stddev * Sample(RngAfter(s, (i - 1) * m + j - 1))]]

\* generate_noise(X, stddev): ValueError "scale < 0" for a negative stddev,
\* else noise of X's shape
generate_noise(s, X, stddev) ==
    IF stddev < 0
    THEN [ok |-> FALSE, noise |-> <<>>, rng |-> s]
    ELSE [ok |-> TRUE,
          noise |-> NormalArray(s, Rows(X), FeatDim, stddev),
          rng |-> RngAfter(s, Rows(X) * FeatDim)]

\* X + noise, elementwise, a new array
AddArrays(X, N) == [i \in 1..Rows(X) |-> [j \in 1..Len(X[i]) |-> X[i][j] + N[i][j]]]

\* [X + generate_noise(X, stddev) for i in range(K)]: for K < 1 the range is
\* empty, generate_noise is never called, and the list is empty
RECURSIVE AugList(_, _, _, _)
AugList(s, X, stddev, K) ==
    IF K < 1
    THEN [ok |-> TRUE, augs |-> <<>>, rng |-> s]
    ELSE LET g == generate_noise(s, X, stddev)
         IN  IF ~g.ok
             THEN [ok |-> FALSE, augs |-> <<>>, rng |-> s]
             ELSE LET rest == AugList(g.rng, X, stddev, K - 1)
                  IN  [ok |-> rest.ok,
                       augs |-> <<AddArrays(X, g.noise)>> \o rest.augs,
                       rng |-> rest.rng]

\* a list of one copy too many
noisy_augment_extra(s, X, stddev, K) == AugList(s, X, stddev, K + 1)

noisy_augment(s, X, stddev, K) == AugList(s, X, stddev, K)

\* ------------------------------------------------------------ the predictor
\* model(x).numpy(): one label row, of one column, per row of x
Predict(kind, x) ==
    [i \in 1..Rows(x) |-> <<IF kind = "feature" THEN x[i][1] ELSE 0 - x[i][1]>>]

\* ------------------------------------------------------------ numpy helpers
\* np.concatenate(arrs, axis=1) of arrays with the same number of rows
RECURSIVE ConcatCols(_)
ConcatCols(arrs) ==
    IF Len(arrs) = 1
    THEN arrs[1]
    ELSE LET rest == ConcatCols(Tail(arrs))
         IN  [i \in 1..Rows(arrs[1]) |-> arrs[1][i] \o rest[i]]

\* where np.concatenate puts its result: an array of its own
ConcatAliasSingle(h, refs) == IF Len(refs) = 1 THEN refs[1] ELSE Len(h) + 1

ConcatTarget(h, refs) == Len(h) + 1

\* write value v at reference r: a new cell when r is one past the heap
Store(h, r, v) == IF r = Len(h) + 1 THEN Append(h, v) ELSE [h EXCEPT ![r] = v]

\* one row in ascending order
RECURSIVE Insert(_, _)
Insert(v, s) ==
    IF s = <<>> THEN <<v>>
    ELSE IF v <= Head(s) THEN <<v>> \o s
    ELSE <<Head(s)>> \o Insert(v, Tail(s))

RECURSIVE SortRowAsc(_)
SortRowAsc(r) == IF r = <<>> THEN <<>> ELSE Insert(Head(r), SortRowAsc(Tail(r)))

SortRowKeep(r) == r

SortRow(r) == SortRowAsc(r)

\* Q.sort(axis=1)
SortRows(a) == [i \in 1..Rows(a) |-> SortRow(a[i])]

\* np.concatenate((a, b), axis=0)
ConcatRows(a, b) == a \o b

\* Y.tolist() + Q.tolist(): the rows of Y, then the rows of Q, as they are
LabelPoolTrimmed(Y, Qv) ==
    Y \o [i \in 1..Rows(Qv) |->
            IF Rows(Y) > 0 /\ Len(Qv[i]) > Len(Y[1])
            THEN SubSeq(Qv[i], 1, Len(Y[1])) ELSE Qv[i]]

LabelPool(Y, Qv) == Y \o Qv

\* the rows of a list of lists do not all have one length
Ragged(rows) == \E i, j \in 1..Len(rows) : Len(rows[i]) # Len(rows[j])

\* sklearn's check_consistent_length, as shuffle applies it to its arrays
ConsistentLengthLax(a, b) == Rows(a) <= Rows(b)

ConsistentLength(a, b) == Rows(a) = Rows(b)

\* shuffle(W, Wlabels): both arrays indexed by the same drawn indices
ShuffleApart(Wv, Wl, p) == <<Take(Wv, p), Take(Wl, [i \in 1..Len(p) |-> p[Len(p) + 1 - i]])>>

Shuffle(Wv, Wl, p) == <<Take(Wv, p), Take(Wl, p)>>

\* l = len(W)//2
SplitIndexCeil(n) == (n + 1) \div 2

SplitIndex(n) == n \div 2

\* Uaugs[-1]
LastIndexFirst(augs) == 1

LastIndex(augs) == Len(augs)

\* an exception raised by a callee leaves the function at once
RaiseOrSwallow(ok, next) == next

RaiseOr(ok, next) == IF ok THEN next ELSE "failed"

\* ------------------------------------------------------ the external mixup
\* mixup_ot1d(anchor, pool, anchorLabels, poolLabels, alpha, K): opaque; a
\* mixed batch with the anchor's rows and K-column labels, both new arrays
MixupResult(anchor, pool, anchorLabels, poolLabels, alpha, K) ==
    <<anchor, [i \in 1..Rows(anchor) |-> [j \in 1..K |-> 0]]>>

\* --------------------------------------------------------------- the inputs
InputBatch(n, base) == [i \in 1..n |-> [j \in 1..FeatDim |-> base + 10 * i + j]]

InputLabels(n, c) == [i \in 1..n |-> [j \in 1..c |-> (i + j) % 2]]

NaugValues == ((0 - 1)..MaxAug) \cup {DefaultNaug}

StddevValues == {0 - 1, 0, 1}

\* the documented one-column labels, and two-column ones
LabelCols == {1, 2}

Seeds == {0}

PredictorKinds == {"feature", "negated"}

\* (alpha, K), alpha in hundredths: the defaults 0.75 and 3, and another pair
MixParams == {<<75, 3>>, <<50, 1>>}

Init ==
    \E nX \in 0..MaxRows, nY \in 0..MaxRows, nU \in 0..MaxRows,
       cY \in LabelCols, na \in NaugValues, sd \in StddevValues,
       seed \in Seeds, kind \in PredictorKinds, ak \in MixParams :
        /\ inp = [X |-> InputBatch(nX, 0), Y |-> InputLabels(nY, cY),
                  U |-> InputBatch(nU, 100), ycols |-> cY, stddev |-> sd,
                  alpha |-> ak[1], K |-> ak[2], naug |-> na, model |-> kind]
        /\ heap = <<InputBatch(nX, 0), InputLabels(nY, cY), InputBatch(nU, 100)>>
        /\ rng = seed
        /\ pc = "gen_Xhat"
        /\ err = "none"
        /\ errAt = "none"
        /\ Xhat = Unbound
        /\ Uaugs = <<>>
        /\ Uhat = Unbound
        /\ preds = <<>>
        /\ Q = Unbound
        /\ W = Unbound
        /\ Wlabels = Unbound
        /\ l = 0
        /\ perm = <<>>
        /\ predLog = <<>>
        /\ mixLog = <<>>
        /\ outs = <<>>
        /\ ret = <<>>

\* the call ends with exception e, raised at statement `at`
Fail(e, at) ==
    /\ pc' = "failed"
    /\ err' = e
    /\ errAt' = at

NoFail == UNCHANGED <<err, errAt>>

\* line 87: Xhat = X + generate_noise(X, stddev=stddev)
GenXhat ==
    /\ pc = "gen_Xhat"
    /\ LET g == generate_noise(rng, heap[XRef], inp.stddev)
       IN  IF ~g.ok
           THEN /\ Fail("ValueError", "gen_Xhat")
                /\ UNCHANGED <<heap, rng, Xhat>>
           ELSE /\ heap' = Append(heap, AddArrays(heap[XRef], g.noise))
                /\ Xhat' = Len(heap) + 1
                /\ rng' = g.rng
                /\ pc' = "augment"
                /\ NoFail
    /\ UNCHANGED <<inp, Uaugs, Uhat, preds, Q, W, Wlabels, l, perm, predLog,
                   mixLog, outs, ret>>

\* line 90: Uaugs = noisy_augment(U, stddev=stddev, K=naug)
Augment ==
    /\ pc = "augment"
    /\ LET a == noisy_augment(rng, heap[URef], inp.stddev, inp.naug)
       IN  IF ~a.ok
           THEN /\ Fail("ValueError", "augment")
                /\ UNCHANGED <<heap, rng, Uaugs>>
           ELSE /\ heap' = heap \o a.augs
                /\ Uaugs' = [i \in 1..Len(a.augs) |-> Len(heap) + i]
                /\ rng' = a.rng
                /\ pc' = "pick_Uhat"
                /\ NoFail
    /\ UNCHANGED <<inp, Xhat, Uhat, preds, Q, W, Wlabels, l, perm, predLog,
                   mixLog, outs, ret>>

\* line 91: Uhat = Uaugs[-1], an IndexError on an empty list
PickUhat ==
    /\ pc = "pick_Uhat"
    /\ IF Uaugs = <<>>
       THEN /\ Fail("IndexError", "pick_Uhat")
            /\ UNCHANGED Uhat
       ELSE /\ Uhat' = Uaugs[LastIndex(Uaugs)]
            /\ pc' = "predict"
            /\ NoFail
    /\ UNCHANGED <<inp, heap, rng, Xhat, Uaugs, preds, Q, W, Wlabels, l, perm,
                   predLog, mixLog, outs, ret>>

\* line 95: preds = list(map(modeln, Uaugs)), one invocation of the predictor;
\* the predictor is external and may raise
PredictOne ==
    /\ pc = "predict"
    /\ Len(preds) < Len(Uaugs)
    /\ LET u == Uaugs[Len(preds) + 1]
       IN  /\ predLog' = Append(predLog, u)
           /\ \E ok \in BOOLEAN :
                /\ pc' = RaiseOr(ok, "predict")
                /\ err' = IF ok THEN err ELSE "PredictorError"
                /\ errAt' = IF ok THEN errAt ELSE "predict"
                /\ IF ok
                   THEN /\ heap' = Append(heap, Predict(inp.model, heap[u]))
                        /\ preds' = Append(preds, Len(heap) + 1)
                   ELSE UNCHANGED <<heap, preds>>
    /\ UNCHANGED <<inp, rng, Xhat, Uaugs, Uhat, Q, W, Wlabels, l, perm, mixLog,
                   outs, ret>>

\* line 98: Q = np.concatenate(preds, axis=1)
ConcatQ ==
    /\ pc = "predict"
    /\ Len(preds) = Len(Uaugs)
    /\ LET r == ConcatTarget(heap, preds)
       IN  /\ heap' = Store(heap, r, ConcatCols([i \in 1..Len(preds) |-> heap[preds[i]]]))
           /\ Q' = r
    /\ pc' = "sort_Q"
    /\ UNCHANGED <<inp, rng, err, errAt, Xhat, Uaugs, Uhat, preds, W, Wlabels,
                   l, perm, predLog, mixLog, outs, ret>>

\* line 100: Q.sort(axis=1), in place
SortQ ==
    /\ pc = "sort_Q"
    /\ heap' = [heap EXCEPT ![Q] = SortRows(heap[Q])]
    /\ pc' = "build_W"
    /\ UNCHANGED <<inp, rng, err, errAt, Xhat, Uaugs, Uhat, preds, Q, W,
                   Wlabels, l, perm, predLog, mixLog, outs, ret>>

\* line 103: W = np.concatenate((Xhat, Uhat), axis=0)
BuildW ==
    /\ pc = "build_W"
    /\ heap' = Append(heap, ConcatRows(heap[Xhat], heap[Uhat]))
    /\ W' = Len(heap) + 1
    /\ pc' = "build_Wlabels"
    /\ UNCHANGED <<inp, rng, err, errAt, Xhat, Uaugs, Uhat, preds, Q, Wlabels,
                   l, perm, predLog, mixLog, outs, ret>>

\* lines 106-107: Wlabels = np.array(Y.tolist() + Q.tolist()).  On rows of
\* differing lengths np.array either raises a ValueError or builds an array
\* of row objects, depending on the numpy in use
BuildWlabels ==
    /\ pc = "build_Wlabels"
    /\ LET rows == LabelPool(heap[YRef], heap[Q])
       IN  \E strict \in BOOLEAN :
             IF Ragged(rows) /\ strict
             THEN /\ Fail("ValueError", "build_Wlabels")
                  /\ UNCHANGED <<heap, Wlabels>>
             ELSE /\ heap' = Append(heap, rows)
                  /\ Wlabels' = Len(heap) + 1
                  /\ pc' = "shuffle"
                  /\ NoFail
    /\ UNCHANGED <<inp, rng, Xhat, Uaugs, Uhat, preds, Q, W, l, perm, predLog,
                   mixLog, outs, ret>>

\* line 110: W, Wlabels = shuffle(W, Wlabels); a ValueError when the two
\* arrays differ in length, else both re-indexed by one drawn permutation
ShuffleStep ==
    /\ pc = "shuffle"
    /\ IF ~ConsistentLength(heap[W], heap[Wlabels])
       THEN /\ Fail("ValueError", "shuffle")
            /\ UNCHANGED <<heap, W, Wlabels, perm>>
       ELSE \E p \in Perms(Rows(heap[W])) :
              LET s == Shuffle(heap[W], heap[Wlabels], p)
              IN  /\ heap' = heap \o <<s[1], s[2]>>
                  /\ W' = Len(heap) + 1
                  /\ Wlabels' = Len(heap) + 2
                  /\ perm' = <<p>>
                  /\ pc' = "split"
                  /\ NoFail
    /\ UNCHANGED <<inp, rng, Xhat, Uaugs, Uhat, preds, Q, l, predLog, mixLog,
                   outs, ret>>

\* line 112: l = len(W)//2
Split ==
    /\ pc = "split"
    /\ l' = SplitIndex(Rows(heap[W]))
    /\ pc' = "mixup1"
    /\ UNCHANGED <<inp, heap, rng, err, errAt, Xhat, Uaugs, Uhat, preds, Q, W,
                   Wlabels, perm, predLog, mixLog, outs, ret>>

\* one call of the external mixup_ot1d, which may raise
MixupCall(at, next, anchor, pool, anchorLabels, poolLabels) ==
    \E ok \in BOOLEAN :
        LET r == MixupResult(heap[anchor], pool, heap[anchorLabels], poolLabels,
                             inp.alpha, inp.K)
        IN  /\ mixLog' = Append(mixLog,
                  [anchor |-> anchor, pool |-> pool, anchorLabels |-> anchorLabels,
                   poolLabels |-> poolLabels, alpha |-> inp.alpha, K |-> inp.K,
                   ok |-> ok])
            /\ pc' = RaiseOr(ok, next)
            /\ err' = IF ok THEN err ELSE "MixupError"
            /\ errAt' = IF ok THEN errAt ELSE at
            /\ IF ok
               THEN /\ heap' = heap \o <<r[1], r[2]>>
                    /\ outs' = outs \o <<Len(heap) + 1, Len(heap) + 2>>
               ELSE UNCHANGED <<heap, outs>>

\* lines 115-116: Xprime, Yprime = mixup_ot1d(Xhat, W[:l], Y, Wlabels[:l], ...)
Mixup1 ==
    /\ pc = "mixup1"
    /\ MixupCall("mixup1", "mixup2", Xhat, SubSeq(heap[W], 1, l), YRef,
                 SubSeq(heap[Wlabels], 1, l))
    /\ UNCHANGED <<inp, rng, Xhat, Uaugs, Uhat, preds, Q, W, Wlabels, l, perm,
                   predLog, ret>>

\* lines 118-119: Uprime, Qprime = mixup_ot1d(Uhat, W[l:], Q, Wlabels[l:], ...)
Mixup2 ==
    /\ pc = "mixup2"
    /\ MixupCall("mixup2", "return", Uhat, SubSeq(heap[W], l + 1, Rows(heap[W])), Q,
                 SubSeq(heap[Wlabels], l + 1, Rows(heap[Wlabels])))
    /\ UNCHANGED <<inp, rng, Xhat, Uaugs, Uhat, preds, Q, W, Wlabels, l, perm,
                   predLog, ret>>

\* line 122: return Xprime, Yprime, Uprime, Qprime
Return ==
    /\ pc = "return"
    /\ ret' = outs
    /\ pc' = "done"
    /\ UNCHANGED <<inp, heap, rng, err, errAt, Xhat, Uaugs, Uhat, preds, Q, W,
                   Wlabels, l, perm, predLog, mixLog, outs>>

Next ==
    \/ GenXhat
    \/ Augment
    \/ PickUhat
    \/ PredictOne
    \/ ConcatQ
    \/ SortQ
    \/ BuildW
    \/ BuildWlabels
    \/ ShuffleStep
    \/ Split
    \/ Mixup1
    \/ Mixup2
    \/ Return

Spec == Init /\ [][Next]_vars

\* ------------------------------------------------------ positions in the call
PcOrder ==
    <<"gen_Xhat", "augment", "pick_Uhat", "predict", "sort_Q", "build_W",
      "build_Wlabels", "shuffle", "split", "mixup1", "mixup2", "return", "done">>

Idx(p) == CHOOSE i \in 1..Len(PcOrder) : PcOrder[i] = p

\* the statement the call is at, or failed at
Here == IF pc = "failed" THEN errAt ELSE pc

\* statement p has been executed to its end
Past(p) == Idx(Here) > Idx(p)

Mismatch == Rows(inp.X) # Rows(inp.Y)

Pairs(a, b) == [i \in 1..Len(a) |-> <<a[i], b[i]>>]

\* the predictions made for row i of U, in the order of the copies
RawRow(i) == [k \in 1..Len(preds) |-> heap[preds[k]][i][1]]

\* --------------------------------------------------------------------- C1
\* C1 (as stated): whenever len(X) # len(Y) the call fails before the first
\* predictor invocation, before the shuffle and before either mixup call, and
\* returns nothing.
C1_Original ==
    Mismatch => /\ predLog = <<>>
                /\ perm = <<>>
                /\ mixLog = <<>>
                /\ ret = <<>>

\* C1 (amended): whenever len(X) # len(Y) the call returns nothing, never
\* completes the shuffle and never invokes mixup, and it fails at the shuffle
\* at the latest; a failure at the shuffle is the shuffle's own ValueError,
\* raised after all naug predictor invocations have taken place.
C1_Amended ==
    Mismatch => /\ ret = <<>>
                /\ perm = <<>>
                /\ mixLog = <<>>
                /\ Idx(Here) <= Idx("shuffle")
                /\ (pc = "failed" /\ errAt = "shuffle")
                      => /\ err = "ValueError"
                         /\ inp.naug >= 1
                         /\ Len(predLog) = inp.naug

C1_Witness ==
    /\ Mismatch
    /\ pc = "failed"
    /\ errAt = "shuffle"
    /\ Len(predLog) >= 2

\* --------------------------------------------------------------------- C2
\* C2 (as stated): for K < 1 noisy_augment fails and never returns a list.
C2_Original == inp.naug < 1 => ~Past("augment")

\* C2 (amended): noisy_augment validates nothing: it returns a list of exactly
\* K copies for K >= 1 and the empty list, without failing, for K < 1; in
\* mixmatch_ot1d the empty list then fails at Uaugs[-1] with an IndexError,
\* before any predictor invocation.
C2_Amended ==
    Past("augment") =>
        /\ Len(Uaugs) = (IF inp.naug < 1 THEN 0 ELSE inp.naug)
        /\ inp.naug < 1 => /\ predLog = <<>>
                           /\ \/ pc = "pick_Uhat"
                              \/ /\ pc = "failed"
                                 /\ errAt = "pick_Uhat"
                                 /\ err = "IndexError"

C2_Witness ==
    /\ inp.naug < 1
    /\ pc = "pick_Uhat"
    /\ Uaugs = <<>>

\* --------------------------------------------------------------------- C3
\* C3: the call returns all four outputs after two completed mixup calls, or
\* fails and returns nothing; a failure of a predictor invocation or of a
\* mixup call ends the call there, with that failure, and no later step runs.
C3_NoPartialResults ==
    /\ ret # <<>> => /\ pc = "done"
                     /\ err = "none"
                     /\ Len(ret) = 4
                     /\ Len(mixLog) = 2
                     /\ mixLog[1].ok
                     /\ mixLog[2].ok
    /\ pc = "done" => Len(ret) = 4
    /\ pc = "failed" => ret = <<>>
    /\ \A i \in 1..Len(mixLog) :
          ~mixLog[i].ok => /\ i = Len(mixLog)
                           /\ pc = "failed"
                           /\ err = "MixupError"
                           /\ Len(outs) = 2 * (i - 1)
    /\ err = "PredictorError" => /\ pc = "failed"
                                 /\ Len(predLog) = Len(preds) + 1
                                 /\ Q = Unbound
                                 /\ perm = <<>>
                                 /\ mixLog = <<>>

C3_Witness ==
    /\ pc = "failed"
    /\ errAt = "mixup1"
    /\ Len(mixLog) = 1
    /\ ret = <<>>

\* --------------------------------------------------------------------- C4
\* C4: once Q is sorted it has one row per row of U and naug columns, every
\* row is non-decreasing and is a rearrangement of the naug predictions made
\* for that row; this Q is what the label pool holds after Y's rows and what
\* the second mixup call gets as anchor labels.
C4_SortedQ ==
    Past("sort_Q") =>
        /\ Rows(heap[Q]) = Rows(inp.U)
        /\ \A k \in 1..Len(preds) : heap[preds[k]] = Predict(inp.model, heap[Uaugs[k]])
        /\ \A i \in 1..Rows(heap[Q]) :
              /\ Len(heap[Q][i]) = inp.naug
              /\ Sorted(heap[Q][i])
              /\ pc = "build_W" => SameMultiset(heap[Q][i], RawRow(i))
        /\ pc = "shuffle" =>
              SubSeq(heap[Wlabels], Rows(inp.Y) + 1, Rows(heap[Wlabels])) = heap[Q]
        /\ Len(mixLog) = 2 => mixLog[2].anchorLabels = Q

C4_Witness ==
    /\ Len(mixLog) = 2
    /\ \E i \in 1..Rows(heap[Q]) : ~Sorted(RawRow(i)) /\ Sorted(heap[Q][i])

\* --------------------------------------------------------------------- C5
\* C5: the data pool has len(Xhat) + len(Uhat) rows and the label pool
\* len(Y) + len(Q) rows, and a shuffle that has been performed was performed
\* on pools of equal row counts.
C5_PoolRowCounts ==
    /\ W # Unbound => Rows(heap[W]) = Rows(heap[Xhat]) + Rows(heap[Uhat])
    /\ Wlabels # Unbound => Rows(heap[Wlabels]) = Rows(heap[YRef]) + Rows(heap[Q])
    /\ (perm # <<>> \/ Past("shuffle")) => Rows(heap[W]) = Rows(heap[Wlabels])

C5_Witness ==
    /\ pc = "mixup1"
    /\ perm # <<>>
    /\ Rows(heap[W]) = 2 * MaxRows
    /\ Rows(heap[Wlabels]) = 2 * MaxRows

\* --------------------------------------------------------------------- C6
\* C6: the caller's X, Y and U hold their original values at every point of
\* the call, and Q is an array of its own: neither an input, nor an augmented
\* copy, nor an array the predictor returned (which keep their values).
C6_InputsNotMutated ==
    /\ heap[XRef] = inp.X
    /\ heap[YRef] = inp.Y
    /\ heap[URef] = inp.U
    /\ Q # Unbound => Q \notin ({XRef, YRef, URef, Xhat} \cup Range(Uaugs) \cup Range(preds))
    /\ \A k \in 1..Len(preds) : heap[preds[k]] = Predict(inp.model, heap[Uaugs[k]])

C6_Witness ==
    /\ inp.naug = 1
    /\ pc = "done"
    /\ Rows(inp.U) >= 1
    /\ Rows(inp.X) >= 1

\* --------------------------------------------------------------------- C7
\* C7: when the shuffle returns, every index holds a (data row, label row) pair that
\* stood at one index before it, and the pairs are the same with the same
\* multiplicities: the rows of Xhat with their rows of Y, the rows of Uhat
\* with their rows of Q.
C7_JointShuffle ==
    pc = "split" =>
        LET pre == Pairs(ConcatRows(heap[Xhat], heap[Uhat]), LabelPool(heap[YRef], heap[Q]))
            post == Pairs(heap[W], heap[Wlabels])
        IN  /\ Len(post) = Len(pre)
            /\ SameMultiset(pre, post)
            /\ \A i \in 1..Len(post) : \E j \in 1..Len(pre) : post[i] = pre[j]

C7_Witness ==
    /\ pc = "split"
    /\ Rows(heap[W]) >= 3
    /\ \E i \in 1..Len(perm[1]) : perm[1][i] # i
    /\ Rows(inp.X) >= 1
    /\ Rows(inp.U) >= 1

\* --------------------------------------------------------------------- C8
\* C8: the pool is cut at floor(N/2); mixup is invoked at most twice, twice in
\* a completed call: first on (Xhat, W[:l], Y, Wlabels[:l]), then on
\* (Uhat, W[l:], Q, Wlabels[l:]); the halves partition the pool, and alpha and
\* K are the caller's.
C8_SplitAndMixup ==
    /\ Len(mixLog) <= 2
    /\ pc = "done" => Len(mixLog) = 2
    /\ Past("split") => /\ 2 * l <= Rows(heap[W])
                        /\ Rows(heap[W]) <= 2 * l + 1
    /\ Len(mixLog) >= 1 =>
          /\ mixLog[1].anchor = Xhat
          /\ mixLog[1].anchorLabels = YRef
          /\ mixLog[1].pool = SubSeq(heap[W], 1, l)
          /\ mixLog[1].poolLabels = SubSeq(heap[Wlabels], 1, l)
          /\ Len(mixLog[1].pool) = l
          /\ mixLog[1].alpha = inp.alpha
          /\ mixLog[1].K = inp.K
    /\ Len(mixLog) = 2 =>
          /\ mixLog[2].anchor = Uhat
          /\ mixLog[2].anchorLabels = Q
          /\ mixLog[1].pool \o mixLog[2].pool = heap[W]
          /\ mixLog[1].poolLabels \o mixLog[2].poolLabels = heap[Wlabels]
          /\ Len(mixLog[2].pool) = Rows(heap[W]) - l
          /\ Len(mixLog[2].poolLabels) = Len(mixLog[2].pool)
          /\ mixLog[2].alpha = inp.alpha
          /\ mixLog[2].K = inp.K

C8_Witness ==
    /\ pc = "done"
    /\ Rows(heap[W]) = 3
    /\ l = 1
    /\ Len(mixLog[2].pool) = 2

\* --------------------------------------------------------------------- C9
\* C9: for naug >= 1 there are naug augmented copies of U; the predictor is
\* invoked on them one by one in generation order, all of them before Q, the
\* shuffle and the mixup calls, and on nothing else; Uhat is the last copy,
\* the array of the naug-th invocation, and it is the U part of W and the
\* anchor of the second mixup call.
C9_AugmentAndPredict ==
    /\ (Past("augment") /\ inp.naug >= 1) => Len(Uaugs) = inp.naug
    /\ \A i, j \in 1..Len(Uaugs) : i # j => Uaugs[i] # Uaugs[j]
    /\ Range(Uaugs) \cap {XRef, YRef, URef, Xhat} = {}
    /\ Len(predLog) <= Len(Uaugs)
    /\ \A i \in 1..Len(predLog) : predLog[i] = Uaugs[i]
    /\ (Q # Unbound \/ perm # <<>> \/ mixLog # <<>>) =>
          /\ predLog = Uaugs
          /\ Len(preds) = inp.naug
    /\ Uhat # Unbound => /\ Uhat = Uaugs[inp.naug]
                         /\ Len(predLog) = inp.naug => Uhat = predLog[inp.naug]
    /\ pc = "build_Wlabels" =>
          SubSeq(heap[W], Rows(inp.X) + 1, Rows(heap[W])) = heap[Uaugs[inp.naug]]
    /\ Len(mixLog) = 2 => mixLog[2].anchor = predLog[inp.naug]

C9_Witness ==
    /\ pc = "done"
    /\ inp.naug >= 2
    /\ heap[Uaugs[1]] # heap[Uaugs[inp.naug]]
    /\ Len(predLog) = inp.naug

\* -------------------------------------------------------------------- C10
\* C10 (as stated): the rows of the label pool all have one length if and
\* only if Y's column count equals naug.
C10_Original ==
    Wlabels # Unbound => (~Ragged(heap[Wlabels]) <=> inp.ycols = inp.naug)

\* C10 (amended): the label pool is Y's rows followed by Q's rows as they
\* are; its rows all have one length if and only if Y's column count equals
\* naug or one of Y and U has no rows.  When the column count differs from
\* naug and both have rows, the pool that is shuffled and handed to the mixup
\* calls holds rows of two lengths, or its construction fails; only then can
\* the construction fail.
C10_Amended ==
    /\ Wlabels # Unbound =>
          (~Ragged(heap[Wlabels]) <=>
              (inp.ycols = inp.naug \/ Rows(inp.Y) = 0 \/ Rows(inp.U) = 0))
    /\ (pc = "failed" /\ errAt = "build_Wlabels") =>
          /\ inp.ycols # inp.naug
          /\ Rows(inp.Y) >= 1
          /\ Rows(inp.U) >= 1

C10_Witness ==
    /\ Len(mixLog) = 2
    /\ inp.ycols = 1
    /\ inp.naug = DefaultNaug
    /\ Ragged(mixLog[1].poolLabels)
    /\ Ragged(mixLog[2].poolLabels)

====
